---- MODULE Spec2Model ----
(***************************************************************************)
(* The analytics server of src/index.ts: an Express application that       *)
(* validates POSTed events against a JDDF schema before inserting them     *)
(* into a MongoDB collection, and sums the revenue of a user's "Order      *)
(* Completed" events on GET /v1/ltv.                                       *)
(*                                                                         *)
(* JSON values are tagged records (a string is [str |-> s], a number is    *)
(* [num |-> n], ...), so that values of different JSON kinds can be        *)
(* compared; a JSON object is a function from its keys to values.          *)
(***************************************************************************)
EXTENDS Integers, Sequences, FiniteSets, TLC

\* The number of HTTP requests a behaviour contains.
MaxRequests == 2

Requests == 1..MaxRequests

---------------------------------------------------------------------------
\* JSON values, as express/body-parser and the mongodb driver see them.

Str(s) == [str |-> s]
Num(n) == [num |-> n]
Arr(a) == [arr |-> a]
Obj(o) == [obj |-> o]
\* A key that is not there (JavaScript undefined).
Undefined == [undef |-> TRUE]
\* What a sum yields once an operand is not a number (NaN or a concatenation).
NotANumber == [nan |-> TRUE]
\* An identity generated by the store's driver.
ObjectId(n) == [oid |-> n]

IsString(v) == DOMAIN v = {"str"}
IsNumber(v) == DOMAIN v = {"num"}
IsObject(v) == DOMAIN v = {"obj"}
IsObjectId(v) == DOMAIN v = {"oid"}

\* The object with no keys.
EmptyDoc == [k \in {} |-> Undefined]

HasKey(doc, k) == k \in DOMAIN doc

---------------------------------------------------------------------------
\* The event schema: event.jddf.json, from which the interfaces of event.ts
\* are generated. A raw schema is the JSON text parsed: an object of
\* keywords. Properties are kept in the order of the file.

Prop(name, schema) == [name |-> name, schema |-> schema]

RawType(t) == [type |-> t]

RawPageViewed ==
    [properties |-> << Prop("timestamp", RawType("timestamp")),
                       Prop("url", RawType("string")),
                       Prop("userId", RawType("string")) >>]

RawHeartbeat ==
    [properties |-> << Prop("userId", RawType("string")),
                       Prop("timestamp", RawType("timestamp")) >>]

RawOrderCompleted ==
    [properties |-> << Prop("userId", RawType("string")),
                       Prop("timestamp", RawType("timestamp")),
                       Prop("revenue", RawType("float64")) >>]

EventRawSchema ==
    [discriminator |->
        [tag |-> "type",
         mapping |-> << Prop("Page Viewed", RawPageViewed),
                        Prop("Heartbeat", RawHeartbeat),
                        Prop("Order Completed", RawOrderCompleted) >>]]

\* Schemas compileSchema rejects: two forms at once, a mapping member that is
\* not of the properties form, a member that declares the tag again.
RawTwoForms ==
    [type |-> "string", properties |-> << Prop("userId", RawType("string")) >>]

RawMemberNotProperties ==
    [discriminator |->
        [tag |-> "type",
         mapping |-> << Prop("Heartbeat", RawType("string")) >>]]

RawTagRedeclared ==
    [discriminator |->
        [tag |-> "type",
         mapping |-> << Prop("Heartbeat",
                             [properties |-> << Prop("type", RawType("string")) >>]) >>]]

\* What event.jddf.json may hold when the process starts.
RawSchemas ==
    { EventRawSchema, RawTwoForms, RawMemberNotProperties, RawTagRedeclared }

---------------------------------------------------------------------------
\* compileSchema of @jddf/jddf: the raw keywords become a schema of one form,
\* or the schema is refused.

TypeNames == { "boolean", "float64", "string", "timestamp" }

Invalid == [form |-> "invalid"]

Names(props) == { props[i].name : i \in 1..Len(props) }

RECURSIVE compileSchema(_)
compileProps(props) ==
    [i \in 1..Len(props) |-> Prop(props[i].name, compileSchema(props[i].schema))]

compileSchema(raw) ==
    LET kw == DOMAIN raw IN
    IF kw = {} THEN [form |-> "empty"]
    ELSE IF kw = {"type"} THEN
        IF raw.type \in TypeNames THEN [form |-> "type", type |-> raw.type]
        ELSE Invalid
    ELSE IF kw = {"properties"} THEN
        LET req == compileProps(raw.properties) IN
        IF \/ \E i \in 1..Len(req) : req[i].schema = Invalid
           \/ Cardinality(Names(req)) # Len(req)
        THEN Invalid
        ELSE [form |-> "properties", required |-> req]
    ELSE IF kw = {"discriminator"} THEN
        LET tag == raw.discriminator.tag
            members == compileProps(raw.discriminator.mapping) IN
        IF \E i \in 1..Len(members) :
              \/ members[i].schema.form # "properties"
              \/ tag \in Names(members[i].schema.required)
        THEN Invalid
        ELSE [form |-> "discriminator", tag |-> tag, mapping |-> members]
    ELSE Invalid

\* The schema the running server holds.
EventSchema == compileSchema(EventRawSchema)

---------------------------------------------------------------------------
\* Validator.validate of @jddf/jddf: the list of errors of an instance
\* against a compiled schema, each error the path into the instance and the
\* path into the schema. Keys the schema does not name are not looked at.

\* The strings that parse as an RFC 3339 date-time.
DateTimes == { "2019-09-12T03:45:24+00:00" }

TypeMatches(t, v) ==
    CASE t = "boolean" -> DOMAIN v = {"bool"}
      [] t = "float64" -> IsNumber(v)
      [] t = "string" -> IsString(v)
      [] t = "timestamp" -> IsString(v) /\ v.str \in DateTimes
      [] OTHER -> FALSE

ValidationError(ip, sp) == [instancePath |-> ip, schemaPath |-> sp]

\* The member of a discriminator's mapping named by a tag value, if any.
MemberIndex(mapping, name) ==
    { i \in 1..Len(mapping) : mapping[i].name = name }

RECURSIVE validateAt(_, _, _, _)
RECURSIVE validateRequired(_, _, _, _, _)

\* The errors of the required properties from the i-th on, in schema order.
validateRequired(props, i, o, ip, sp) ==
    IF i > Len(props) THEN << >>
    ELSE LET p == props[i]
             here == IF HasKey(o, p.name)
                     THEN validateAt(p.schema, o[p.name],
                                     Append(ip, p.name), Append(sp, p.name))
                     ELSE << ValidationError(ip, Append(sp, p.name)) >>
         IN here \o validateRequired(props, i + 1, o, ip, sp)

validateAt(s, v, ip, sp) ==
    CASE s.form = "empty" -> << >>
      [] s.form = "type" ->
            IF TypeMatches(s.type, v) THEN << >>
            ELSE << ValidationError(ip, Append(sp, "type")) >>
      [] s.form = "properties" ->
            IF IsObject(v)
            THEN validateRequired(s.required, 1, v.obj, ip, Append(sp, "properties"))
            ELSE << ValidationError(ip, Append(sp, "properties")) >>
      [] s.form = "discriminator" ->
            IF ~IsObject(v)
            THEN << ValidationError(ip, Append(sp, "discriminator")) >>
            ELSE IF ~HasKey(v.obj, s.tag)
            THEN << ValidationError(ip, sp \o << "discriminator", "tag" >>) >>
            ELSE IF ~IsString(v.obj[s.tag])
            THEN << ValidationError(Append(ip, s.tag),
                                    sp \o << "discriminator", "tag" >>) >>
            ELSE IF MemberIndex(s.mapping, v.obj[s.tag].str) = {}
            THEN << ValidationError(Append(ip, s.tag),
                                    sp \o << "discriminator", "mapping" >>) >>
            ELSE LET m == CHOOSE i \in MemberIndex(s.mapping, v.obj[s.tag].str) : TRUE
                 IN validateAt(s.mapping[m].schema, v,
                               ip, sp \o << "discriminator", "mapping",
                                            v.obj[s.tag].str >>)

validate(schema, instance) == validateAt(schema, instance, << >>, << >>)

---------------------------------------------------------------------------
\* The request bodies and query parameters the model sends.

Timestamp == "2019-09-12T03:45:24+00:00"

Field(k, v) == k :> v

\* An object that either lacks the key k or gives it one of the values vals.
Opt(k, vals) == { EmptyDoc } \cup { Field(k, v) : v \in vals }

\* Every combination of a missing, a well typed and a wrongly typed value of
\* each key of the schema, with and without a client-chosen "_id".
Bodies ==
    { t @@ u @@ r @@ s @@ l @@ i :
        t \in Opt("type", { Str("Order Completed"), Str("Page Viewed"),
                            Str("Heartbeat"), Str("Refund"), Num(7) }),
        u \in Opt("userId", { Str("alice"), Str("bob"), Num(1) }),
        r \in Opt("revenue", { Num(40), Num(2), Str("100") }),
        s \in Opt("timestamp", { Str(Timestamp), Str("yesterday") }),
        l \in Opt("url", { Str("/home") }),
        i \in Opt("_id", { Str("k1") }) }

OrderCompleted(u, rev) ==
    Field("type", Str("Order Completed")) @@ Field("userId", Str(u))
        @@ Field("timestamp", Str(Timestamp)) @@ Field("revenue", Num(rev))

Heartbeat(u) ==
    Field("type", Str("Heartbeat")) @@ Field("userId", Str(u))
        @@ Field("timestamp", Str(Timestamp))

PageViewed(u) ==
    Field("type", Str("Page Viewed")) @@ Field("userId", Str(u))
        @@ Field("timestamp", Str(Timestamp)) @@ Field("url", Str("/home"))

\* The bodies sent to the server that takes several requests.
ServerBodies ==
    { OrderCompleted("alice", 40), OrderCompleted("bob", 2),
      Heartbeat("alice"), PageViewed("alice"),
      OrderCompleted("alice", 40) @@ Field("_id", Str("k1")),
      Heartbeat("bob") @@ Field("_id", Str("k1")),
      EmptyDoc,
      Field("type", Str("Order Completed")) @@ Field("userId", Str("bob"))
          @@ Field("revenue", Str("100")) }

\* The userId query parameter after express has parsed the query string: a
\* string, nothing, a repeated parameter, a bracketed parameter.
QueryValues ==
    { Str("alice"), Str("carol"), Undefined,
      Arr(<< Str("alice"), Str("bob") >>),
      Obj(Field("$ne", Str("carol"))) }

---------------------------------------------------------------------------
\* The events collection: insertOne and find of the mongodb driver.

Null == [null |-> TRUE]

\* insertOne gives the document an _id of the driver's making when it has
\* none, on the object it was handed.
WithId(doc, n) ==
    IF HasKey(doc, "_id") THEN doc ELSE doc @@ Field("_id", ObjectId(n))

\* The unique index on _id.
DuplicateKey(coll, doc) ==
    \E i \in 1..Len(coll) : coll[i]["_id"] = doc["_id"]

\* MatchesValue as it is with the driver told to leave undefined values out
\* of what it sends: the condition is dropped.
MatchesValueIgnoreUndefined(doc, k, qv) ==
    IF qv = Undefined THEN TRUE
    ELSE IF qv = [null |-> TRUE]
    THEN ~HasKey(doc, k) \/ doc[k] = [null |-> TRUE]
    ELSE IF IsObject(qv) /\ DOMAIN qv.obj = {"$ne"}
    THEN ~HasKey(doc, k) \/ doc[k] # qv.obj["$ne"]
    ELSE HasKey(doc, k) /\ doc[k] = qv

\* One condition of a filter. A value that is undefined goes over the wire as
\* null, which also matches a missing key; an object of $-operators is an
\* operator expression; anything else matches by equality.
MatchesValue(doc, k, qv) ==
    IF qv = Undefined \/ qv = Null
    THEN ~HasKey(doc, k) \/ doc[k] = Null
    ELSE IF IsObject(qv) /\ DOMAIN qv.obj = {"$ne"}
    THEN ~HasKey(doc, k) \/ doc[k] # qv.obj["$ne"]
    ELSE HasKey(doc, k) /\ doc[k] = qv

Matches(doc, filter) ==
    \A k \in DOMAIN filter : MatchesValue(doc, k, filter[k])

\* find(filter).toArray(): the matching documents in insertion order.
find(coll, filter) == SelectSeq(coll, LAMBDA d : Matches(d, filter))

\* What the store's operations fail with.
NetworkError == "MongoNetworkError"
DuplicateKeyError == "E11000 duplicate key error"

---------------------------------------------------------------------------
\* The server.

VARIABLES
    phase,      \* how far main() has come
    rawSchema,  \* event.jddf.json as parsed by main()
    schema,     \* the compiled schema main() holds
    store,      \* the events collection, in insertion order
    nextId,     \* the next identity the driver generates
    req         \* the requests, each with the position of its handler

vars == << phase, rawSchema, schema, store, nextId, req >>

NoSchema == [form |-> "none"]
NoRaw == [unread |-> TRUE]

NoResponse ==
    [kind |-> "none", status |-> 0, errors |-> << >>, doc |-> EmptyDoc,
     ltv |-> Undefined, err |-> ""]

\* BadRequest with the status left at its default.
BadRequestNoStatus(errors) ==
    [NoResponse EXCEPT !.kind = "json", !.status = 200, !.errors = errors]

\* res.status(400).json(errors)
BadRequest(errors) ==
    [NoResponse EXCEPT !.kind = "json", !.status = 400, !.errors = errors]

\* res.status(200).json(event)
OkEvent(event) ==
    [NoResponse EXCEPT !.kind = "json", !.status = 200, !.doc = event]

\* res.status(200).json({ ltv })
OkLtv(ltv) ==
    [NoResponse EXCEPT !.kind = "json", !.status = 200, !.ltv = ltv]

\* asyncMiddleware answering a rejection itself, as if it were a bad request.
asyncMiddlewareAnswers(err) ==
    [NoResponse EXCEPT !.kind = "json", !.status = 400]

\* The handler's promise was rejected with err: next(err), no response of
\* the handler's own.
asyncMiddleware(err) == [NoResponse EXCEPT !.kind = "next", !.err = err]

\* A request that has not arrived. body is req.body as it came, event the
\* same object as insertOne leaves it, query is req.query.userId, events the
\* array find gave, seen the number of documents the collection held when
\* find was answered, issued the number of store operations started,
\* began the number of documents the collection held when a GET arrived,
\* acked the POSTs that had been answered 200 by then, storeErr what the
\* awaited store operation threw, res the answer.
NoRequest ==
    [kind |-> "none", pc |-> "none", body |-> EmptyDoc, event |-> EmptyDoc,
     query |-> Undefined, events |-> << >>, seen |-> 0, issued |-> 0,
     began |-> 0, acked |-> {},
     storeErr |-> "", res |-> NoResponse]

\* LtvFilter without the event type.
LtvFilterAnyType(userId) == Field("userId", userId)

\* The filter getLTV hands to find.
LtvFilter(userId) ==
    Field("type", Str("Order Completed")) @@ Field("userId", userId)

\* ltv += event.revenue
Plus(ltv, e) ==
    IF IsNumber(ltv) /\ HasKey(e, "revenue") /\ IsNumber(e["revenue"])
    THEN Num(ltv.num + e["revenue"].num)
    ELSE NotANumber

RECURSIVE SumFrom(_, _, _)
SumFrom(ltv, events, i) ==
    IF i > Len(events) THEN ltv
    ELSE SumFrom(Plus(ltv, events[i]), events, i + 1)

\* SumRevenue with the loop starting at the second event.
SumRevenueFromSecond(events) == SumFrom(Num(0), events, 2)

\* let ltv = 0; for (const event of events) { ltv += event.revenue; }
SumRevenue(events) == SumFrom(Num(0), events, 1)

\* The collection as the process finds it: empty, or holding what an earlier
\* run of the server has stored.
StoredBefore ==
    { << >>,
      << WithId(OrderCompleted("alice", 40), 101),
         WithId(Heartbeat("alice"), 102),
         WithId(OrderCompleted("bob", 2), 103),
         WithId(PageViewed("alice"), 104),
         WithId(OrderCompleted("alice", 2), 105) >> }

Init ==
    /\ phase = "connecting"
    /\ rawSchema = NoRaw
    /\ schema = NoSchema
    /\ store \in StoredBefore
    /\ nextId = 1
    /\ req = [r \in Requests |-> NoRequest]

\* await MongoClient.connect(...)
Connect(ok) ==
    /\ phase = "connecting"
    /\ phase' = IF ok THEN "connected" ELSE "crashed"
    /\ UNCHANGED << rawSchema, schema, store, nextId, req >>

\* Startup with the failure of compileSchema caught: the server listens with
\* the schema it was left with.
StartupAnyway(raw) ==
    /\ phase = "connected"
    /\ rawSchema' = raw
    /\ phase' = "listening"
    /\ schema' = IF compileSchema(raw) = Invalid
                 THEN [form |-> "empty"]
                 ELSE compileSchema(raw)
    /\ UNCHANGED << store, nextId, req >>

\* The rest of main(): the schema is read, parsed and compiled, the routes
\* are set and the server listens. compileSchema throws on a schema it
\* refuses, and main() goes no further.
Startup(raw) ==
    /\ phase = "connected"
    /\ rawSchema' = raw
    /\ IF compileSchema(raw) = Invalid
       THEN /\ phase' = "crashed"
            /\ UNCHANGED schema
       ELSE /\ phase' = "listening"
            /\ schema' = compileSchema(raw)
    /\ UNCHANGED << store, nextId, req >>

\* Express routes a request to its handler once the server listens.
\* Requests are numbered in the order they arrive.
Arrives(r) ==
    /\ phase = "listening"
    /\ req[r].kind = "none"
    /\ r > 1 => req[r - 1].kind # "none"

\* The request record of a POST /v1/events with the body b.
Post(b) == [NoRequest EXCEPT !.kind = "post", !.body = b, !.event = b]

\* The request record of a GET /v1/ltv with the parameter userId.
Get(userId) == [NoRequest EXCEPT !.kind = "get", !.query = userId]

\* PostEvent without the return after the errors are sent: the insert goes
\* ahead.
PostEventNoReturn(r, b) ==
    /\ Arrives(r)
    /\ LET errors == validate(schema, Obj(b)) IN
       req' = [req EXCEPT ![r] =
                [Post(b) EXCEPT !.pc = "inserting",
                                !.res = IF Len(errors) > 0
                                        THEN BadRequest(errors) ELSE NoResponse,
                                !.event = WithId(b, nextId),
                                !.issued = 1]]
    /\ nextId' = IF HasKey(b, "_id") THEN nextId ELSE nextId + 1
    /\ UNCHANGED << phase, rawSchema, schema, store >>

\* PostEvent with a validator that stops at the first error
\* (new Validator({ maxErrors: 1 })).
PostEventFirstError(r, b) ==
    /\ Arrives(r)
    /\ LET errors == validate(schema, Obj(b)) IN
       IF Len(errors) > 0
       THEN /\ req' = [req EXCEPT ![r] =
                        [Post(b) EXCEPT !.pc = "done",
                                        !.res = BadRequest(<< Head(errors) >>)]]
            /\ UNCHANGED nextId
       ELSE /\ req' = [req EXCEPT ![r] =
                        [Post(b) EXCEPT !.pc = "inserting",
                                        !.event = WithId(b, nextId),
                                        !.issued = 1]]
            /\ nextId' = IF HasKey(b, "_id") THEN nextId ELSE nextId + 1
    /\ UNCHANGED << phase, rawSchema, schema, store >>

\* PostEvent without the await: insertOne is started and the 200 is sent at
\* once, before the store has answered.
PostEventNoAwait(r, b) ==
    /\ Arrives(r)
    /\ LET errors == validate(schema, Obj(b)) IN
       IF Len(errors) > 0
       THEN /\ req' = [req EXCEPT ![r] =
                        [Post(b) EXCEPT !.pc = "done",
                                        !.res = BadRequest(errors)]]
            /\ UNCHANGED nextId
       ELSE /\ req' = [req EXCEPT ![r] =
                        [Post(b) EXCEPT !.pc = "inserting",
                                        !.event = WithId(b, nextId),
                                        !.issued = 1,
                                        !.res = OkEvent(WithId(b, nextId))]]
            /\ nextId' = IF HasKey(b, "_id") THEN nextId ELSE nextId + 1
    /\ UNCHANGED << phase, rawSchema, schema, store >>

\* A POST /v1/events arrives and postEvent runs up to its await: the body is
\* validated and either answered with the errors or handed to insertOne.
PostEvent(r, b) ==
    /\ Arrives(r)
    /\ LET errors == validate(schema, Obj(b)) IN
       IF Len(errors) > 0
       THEN /\ req' = [req EXCEPT ![r] =
                        [Post(b) EXCEPT !.pc = "done",
                                        !.res = BadRequest(errors)]]
            /\ UNCHANGED nextId
       ELSE /\ req' = [req EXCEPT ![r] =
                        [Post(b) EXCEPT !.pc = "inserting",
                                        !.event = WithId(b, nextId),
                                        !.issued = 1]]
            /\ nextId' = IF HasKey(b, "_id") THEN nextId ELSE nextId + 1
    /\ UNCHANGED << phase, rawSchema, schema, store >>

\* The store takes the document.
InsertOk(r) ==
    /\ req[r].kind = "post" /\ req[r].pc = "inserting"
    /\ ~DuplicateKey(store, req[r].event)
    /\ store' = Append(store, req[r].event)
    /\ req' = [req EXCEPT ![r].pc = "inserted"]
    /\ UNCHANGED << phase, rawSchema, schema, nextId >>

\* The store refuses the document or cannot be reached: the await throws
\* and postEvent's promise is rejected.
InsertFail(r, err) ==
    /\ req[r].kind = "post" /\ req[r].pc = "inserting"
    /\ err = DuplicateKeyError => DuplicateKey(store, req[r].event)
    /\ req' = [req EXCEPT ![r].pc = "done", ![r].storeErr = err,
                          ![r].res = asyncMiddleware(err)]
    /\ UNCHANGED << phase, rawSchema, schema, store, nextId >>

\* PostRespond echoing the body as it came, not the object insertOne was
\* handed.
PostRespondBody(r) ==
    /\ req[r].kind = "post" /\ req[r].pc = "inserted"
    /\ req' = [req EXCEPT ![r].pc = "done", ![r].res = OkEvent(req[r].body)]
    /\ UNCHANGED << phase, rawSchema, schema, store, nextId >>

\* postEvent after its await.
PostRespond(r) ==
    /\ req[r].kind = "post" /\ req[r].pc = "inserted"
    /\ req' = [req EXCEPT ![r].pc = "done", ![r].res = OkEvent(req[r].event)]
    /\ UNCHANGED << phase, rawSchema, schema, store, nextId >>

\* A GET /v1/ltv arrives and getLTV runs up to its await.
GetLTV(r, userId) ==
    /\ Arrives(r)
    /\ req' = [req EXCEPT ![r] =
                [Get(userId) EXCEPT
                    !.pc = "finding", !.issued = 1,
                    !.began = Len(store),
                    !.acked = { p \in Requests :
                                  /\ req[p].kind = "post"
                                  /\ req[p].res.status = 200 }]]
    /\ UNCHANGED << phase, rawSchema, schema, store, nextId >>

\* The store answers the query from the collection as it is now.
FindOk(r) ==
    /\ req[r].kind = "get" /\ req[r].pc = "finding"
    /\ req' = [req EXCEPT ![r].pc = "found", ![r].seen = Len(store),
                          ![r].events = find(store, LtvFilter(req[r].query))]
    /\ UNCHANGED << phase, rawSchema, schema, store, nextId >>

\* The query fails: getLTV's promise is rejected.
FindFail(r, err) ==
    /\ req[r].kind = "get" /\ req[r].pc = "finding"
    /\ req' = [req EXCEPT ![r].pc = "done", ![r].storeErr = err,
                          ![r].res = asyncMiddleware(err)]
    /\ UNCHANGED << phase, rawSchema, schema, store, nextId >>

\* getLTV after its await.
GetRespond(r) ==
    /\ req[r].kind = "get" /\ req[r].pc = "found"
    /\ req' = [req EXCEPT ![r].pc = "done",
                          ![r].res = OkLtv(SumRevenue(req[r].events))]
    /\ UNCHANGED << phase, rawSchema, schema, store, nextId >>

Next ==
    \/ \E ok \in BOOLEAN : Connect(ok)
    \/ \E raw \in RawSchemas : Startup(raw)
    \/ \E r \in Requests, b \in ServerBodies : PostEvent(r, b)
    \/ \E r \in Requests : InsertOk(r)
    \/ \E r \in Requests, err \in { NetworkError, DuplicateKeyError } : InsertFail(r, err)
    \/ \E r \in Requests : PostRespond(r)
    \/ \E r \in Requests, q \in QueryValues : GetLTV(r, q)
    \/ \E r \in Requests : FindOk(r)
    \/ \E r \in Requests : FindFail(r, NetworkError)
    \/ \E r \in Requests : GetRespond(r)

Spec == Init /\ [][Next]_vars

\* The listening server, its collection empty, taking one POST /v1/events,
\* with every body.
InitValidate ==
    /\ phase = "listening"
    /\ rawSchema = EventRawSchema
    /\ schema = EventSchema
    /\ store = << >>
    /\ nextId = 1
    /\ req = [r \in Requests |-> NoRequest]

NextValidate ==
    \/ \E b \in Bodies : PostEvent(1, b)
    \/ InsertOk(1)
    \/ InsertFail(1, NetworkError)
    \/ PostRespond(1)

SpecValidate == InitValidate /\ [][NextValidate]_vars

---------------------------------------------------------------------------
\* What the claims speak of.

Posts == { r \in Requests : req[r].kind = "post" }
Gets == { r \in Requests : req[r].kind = "get" }

\* The handler of r has run.
Handled(r) == req[r].kind # "none"

\* The errors of the body of r against the schema the server holds.
ErrorsOf(r) == validate(schema, Obj(req[r].body))

\* The documents the collection held before the process started.
FromBefore(i) == \E s \in StoredBefore : i <= Len(s) /\ store[i] = s[i]

---------------------------------------------------------------------------
\* C1. Every document of the events collection was validated without
\* errors: it was there before the server started, or it is the body of a
\* POST /v1/events for which validate returned no errors.
C1_OnlyValidatedStored ==
    \A i \in 1..Len(store) :
        \/ FromBefore(i)
        \/ \E r \in Posts :
              /\ req[r].pc \in { "inserted", "done" }
              /\ req[r].event = store[i]
              /\ \A k \in DOMAIN req[r].body : store[i][k] = req[r].body[k]
              /\ ErrorsOf(r) = << >>

\* A body with errors has been turned away and another has been stored.
C1_Witness ==
    \E r1, r2 \in Posts :
        /\ req[r1].res.status = 400
        /\ req[r2].pc = "inserted"
        /\ store # << >> /\ store[Len(store)] = req[r2].event

\* C2. A POST /v1/events whose body has validation errors is answered 400
\* with the list of errors, and starts no insert: the step that answers it
\* leaves the collection as it was, and none is started afterwards.
C2_Answered400 ==
    \A r \in Posts :
        (Handled(r) /\ Len(ErrorsOf(r)) > 0) =>
            /\ req[r].pc = "done"
            /\ req[r].res.kind = "json"
            /\ req[r].res.status = 400
            /\ req[r].res.errors = ErrorsOf(r)
            /\ req[r].issued = 0

C2_StoreUntouched ==
    \A r \in Requests :
        (/\ req[r].kind = "none" /\ req'[r].kind = "post"
         /\ Len(validate(schema, Obj(req'[r].body))) > 0) => store' = store

C2_InvalidRejected == [](C2_Answered400) /\ [][C2_StoreUntouched]_vars

\* A body with two errors has been answered while the collection holds
\* documents.
C2_Witness ==
    \E r \in Posts :
        /\ req[r].res.status = 400
        /\ Len(req[r].res.errors) = 2
        /\ store # << >>

\* C3. A POST /v1/events whose body has no errors and whose insert succeeds
\* is answered 200 with the keys of the body at their values and the _id
\* of the stored document, and no other key.
C3_EchoesStored ==
    \A r \in Posts :
        (req[r].pc = "done" /\ ErrorsOf(r) = << >> /\ req[r].storeErr = "") =>
            /\ req[r].res.kind = "json"
            /\ req[r].res.status = 200
            /\ DOMAIN req[r].res.doc = DOMAIN req[r].body \cup { "_id" }
            /\ \A k \in DOMAIN req[r].body : req[r].res.doc[k] = req[r].body[k]
            /\ \E i \in 1..Len(store) :
                  /\ store[i] = req[r].event
                  /\ req[r].res.doc["_id"] = store[i]["_id"]

\* A body without an _id has been stored and echoed.
C3_Witness ==
    \E r \in Posts :
        /\ req[r].pc = "done"
        /\ req[r].res.status = 200
        /\ ~HasKey(req[r].body, "_id")

\* The collection as find saw it when it answered request r.
Snapshot(r) == SubSeq(store, 1, req[r].seen)

\* The getLTV of r has been answered by the store and has answered in turn.
Summed(r) == req[r].kind = "get" /\ req[r].pc = "done" /\ req[r].storeErr = ""

\* The places of a collection that hold an Order Completed event of userId.
OrdersOf(coll, userId) ==
    { i \in 1..Len(coll) :
        /\ HasKey(coll[i], "type") /\ coll[i]["type"] = Str("Order Completed")
        /\ HasKey(coll[i], "userId") /\ coll[i]["userId"] = userId }

\* The revenue of the events at the places S, added up.
RECURSIVE RevenueAt(_, _)
RevenueAt(coll, S) ==
    IF S = {} THEN 0
    ELSE LET i == CHOOSE j \in S : TRUE
         IN coll[i]["revenue"].num + RevenueAt(coll, S \ { i })

\* C4. GET /v1/ltv?userId=u, u a string, answers 200 with the sum of the
\* revenue of exactly the stored Order Completed events of user u: events of
\* other types and of other users add nothing, and no event gives 0.
C4_LtvIsSumOfOrders ==
    \A r \in Requests :
        (Summed(r) /\ IsString(req[r].query)) =>
            req[r].res =
                OkLtv(Num(RevenueAt(Snapshot(r), OrdersOf(Snapshot(r), req[r].query))))

\* alice's 40 and 2 have been summed to 42 from a collection that also holds
\* a Heartbeat and a Page Viewed of alice and an order of bob.
C4_Witness ==
    \E r \in Requests :
        /\ Summed(r)
        /\ req[r].query = Str("alice")
        /\ req[r].res.ltv = Num(42)
        /\ \E i, j, k \in 1..req[r].seen :
              /\ store[i]["type"] = Str("Heartbeat")
              /\ store[i]["userId"] = Str("alice")
              /\ store[j]["type"] = Str("Page Viewed")
              /\ store[j]["userId"] = Str("alice")
              /\ store[k]["type"] = Str("Order Completed")
              /\ store[k]["userId"] = Str("bob")

\* C5. Whatever the userId parameter is parsed to, the events getLTV sums
\* are Order Completed events of one single userId.
C5_OneUserSummed ==
    \A r \in Requests :
        (req[r].kind = "get" /\ req[r].pc \in { "found", "done" }) =>
            /\ \A i \in 1..Len(req[r].events) :
                  req[r].events[i]["type"] = Str("Order Completed")
            /\ Cardinality({ req[r].events[i]["userId"] :
                               i \in 1..Len(req[r].events) }) <= 1

\* C6. GET /v1/ltv without a userId, or with a userId no stored event has,
\* answers 200 with an ltv of 0 whatever the collection holds, once the
\* store has answered the query.
C6_UnknownOrAbsentIsZero ==
    \A r \in Requests :
        (/\ Summed(r)
         /\ \/ req[r].query = Undefined
            \/ /\ IsString(req[r].query)
               /\ \A i \in 1..req[r].seen :
                     ~(HasKey(store[i], "userId") /\ store[i]["userId"] = req[r].query))
        => req[r].res = OkLtv(Num(0))

\* A request without userId has been answered from a collection that holds
\* orders.
C6_Witness ==
    \E r \in Requests :
        /\ Summed(r)
        /\ req[r].query = Undefined
        /\ req[r].res.status = 200
        /\ OrdersOf(Snapshot(r), Str("alice")) # {}

\* C7. The identity of every stored event is generated by the store, never
\* taken from the client, and no valid event is refused for a duplicate
\* identity.
C7_IdentityFromStore ==
    /\ \A i \in 1..Len(store) : IsObjectId(store[i]["_id"])
    /\ \A r \in Requests : req[r].storeErr # DuplicateKeyError

\* C8. When compileSchema refuses the schema read at startup the server
\* never listens and handles no request; every request is handled by a
\* listening server holding the schema compiled from what was read, and that
\* schema is never replaced.
C8_CompiledBeforeListening ==
    /\ (rawSchema # NoRaw /\ compileSchema(rawSchema) = Invalid) =>
          /\ phase = "crashed"
          /\ \A r \in Requests : req[r].kind = "none"
    /\ (phase = "listening" \/ \E r \in Requests : req[r].kind # "none") =>
          /\ phase = "listening"
          /\ schema # Invalid
          /\ schema = compileSchema(rawSchema)

C8_SchemaKept ==
    schema # NoSchema => (schema' = schema /\ rawSchema' = rawSchema)

C8_CompileOnceOrNotServe == [](C8_CompiledBeforeListening) /\ [][C8_SchemaKept]_vars

\* compileSchema has refused the schema and main() has stopped.
C8_Witness ==
    /\ phase = "crashed"
    /\ rawSchema # NoRaw
    /\ compileSchema(rawSchema) = Invalid

\* C9. When insertOne or find fails, next is called with the store's error:
\* the request gets no 200 and no 400, and the store operation is started
\* once only.
C9_StoreFailurePassedOn ==
    \A r \in Requests :
        /\ req[r].issued <= 1
        /\ req[r].storeErr # "" =>
              /\ req[r].pc = "done"
              /\ req[r].issued = 1
              /\ req[r].res.kind = "next"
              /\ req[r].res.err = req[r].storeErr
              /\ req[r].res.status \notin { 200, 400 }

\* An insert and a query have failed.
C9_Witness ==
    \E r1 \in Posts, r2 \in Gets :
        /\ req[r1].storeErr # ""
        /\ req[r2].storeErr # ""

\* C10. A POSTed object without the key "type" is answered 400 with the one
\* error (instancePath [], schemaPath ["discriminator", "tag"]), whatever
\* else is missing or wrongly typed in it.
C10_MissingTagOneError ==
    \A r \in Posts :
        ~HasKey(req[r].body, "type") =>
            /\ req[r].pc = "done"
            /\ req[r].res.kind = "json"
            /\ req[r].res.status = 400
            /\ req[r].res.errors =
                  << [instancePath |-> << >>,
                      schemaPath |-> << "discriminator", "tag" >>] >>

\* A body without "type", without timestamp, with a userId that is a number
\* and a revenue that is a string has been answered.
C10_Witness ==
    \E r \in Posts :
        /\ req[r].pc = "done"
        /\ DOMAIN req[r].body = { "userId", "revenue" }
        /\ req[r].body["userId"] = Num(1)
        /\ req[r].body["revenue"] = Str("100")

---------------------------------------------------------------------------
\* The members of Event as event.ts declares them: the keys each carries
\* beside "type", and the type the schema gives each key.

MemberKeys(tag) ==
    CASE tag = "Page Viewed" -> { "timestamp", "url", "userId" }
      [] tag = "Heartbeat" -> { "userId", "timestamp" }
      [] tag = "Order Completed" -> { "userId", "revenue", "timestamp" }
      [] OTHER -> {}

KeyType(k) ==
    CASE k = "revenue" -> "float64"
      [] k = "timestamp" -> "timestamp"
      [] OTHER -> "string"

EventTags == { "Page Viewed", "Heartbeat", "Order Completed" }

\* The body names a member of Event.
SelectsMember(b) ==
    HasKey(b, "type") /\ IsString(b["type"]) /\ b["type"].str \in EventTags

\* One error for each key of the member the body lacks, one for each it
\* gives a value of the wrong type.
MemberErrors(b) ==
    LET tag == b["type"].str
        at == << "discriminator", "mapping", tag, "properties" >>
    IN { ValidationError(<< >>, Append(at, k)) :
            k \in MemberKeys(tag) \ DOMAIN b }
       \cup
       { ValidationError(<< k >>, at \o << k, "type" >>) :
            k \in { x \in MemberKeys(tag) \cap DOMAIN b :
                      ~TypeMatches(KeyType(x), b[x]) } }

\* C11. For a body whose "type" names a member of Event the errors are
\* exactly one for each violated constraint of the member and none for the
\* tag: a missing key k gives ([], [discriminator, mapping, tag, properties,
\* k]), a wrongly typed key k gives ([k], [..., properties, k, type]); a body
\* that violates none is not answered 400.
C11_OneErrorPerViolation ==
    \A r \in Posts :
        SelectsMember(req[r].body) =>
            LET want == MemberErrors(req[r].body)
                got == req[r].res.errors
            IN IF want = {}
               THEN req[r].res.status # 400 /\ got = << >>
               ELSE /\ req[r].pc = "done"
                    /\ req[r].res.kind = "json"
                    /\ req[r].res.status = 400
                    /\ { got[i] : i \in 1..Len(got) } = want
                    /\ Len(got) = Cardinality(want)

\* {type: "Order Completed", userId: "bob", revenue: "100"} has been answered
\* with its two errors, the missing timestamp and the revenue of the wrong
\* type.
C11_Witness ==
    \E r \in Posts :
        /\ req[r].body = Field("type", Str("Order Completed"))
                           @@ Field("userId", Str("bob"))
                           @@ Field("revenue", Str("100"))
        /\ req[r].res.status = 400
        /\ req[r].res.errors =
              << [instancePath |-> << >>,
                  schemaPath |-> << "discriminator", "mapping",
                                    "Order Completed", "properties",
                                    "timestamp" >>],
                 [instancePath |-> << "revenue" >>,
                  schemaPath |-> << "discriminator", "mapping",
                                    "Order Completed", "properties",
                                    "revenue", "type" >>] >>

---------------------------------------------------------------------------
\* The insert of the POST r succeeded: its body validated and the store took
\* the document.
Accepted(r) ==
    /\ req[r].kind = "post" /\ req[r].pc \in { "inserted", "done" }
    /\ ErrorsOf(r) = << >> /\ req[r].storeErr = ""

\* Every request that arrived has been answered or passed to next.
AllCompleted == \A r \in Requests : Handled(r) => req[r].pc = "done"

\* The places of the collection filled since the process started.
Inserted == { i \in 1..Len(store) : ~FromBefore(i) }

\* Once all requests have completed, the collection holds one document for
\* each accepted POST and none for any other request.
C12_PersistedOnce ==
    AllCompleted =>
        /\ \A r \in Posts :
              Accepted(r) =>
                  Cardinality({ i \in Inserted : store[i] = req[r].event }) = 1
        /\ \A i \in Inserted :
              \E r \in Posts : Accepted(r) /\ store[i] = req[r].event
        /\ Cardinality(Inserted) = Cardinality({ r \in Posts : Accepted(r) })

\* No request issues more than one store operation.
C12_OneInsert == \A r \in Posts : req[r].issued <= 1

\* The outcome of a POST is that of its own body and of its own insert: 400
\* with its errors, or 200 with its event, or, the store out of reach, the
\* failure passed on. No other request decides it.
C12_OwnOutcome ==
    \A r \in Posts :
        req[r].pc = "done" =>
            req[r].res =
                IF ErrorsOf(r) # << >> THEN BadRequest(ErrorsOf(r))
                ELSE IF req[r].storeErr = NetworkError
                     THEN asyncMiddleware(NetworkError)
                     ELSE OkEvent(req[r].event)

\* C12. POST /v1/events requests are independent and each accepted event is
\* stored once: when all have completed the collection holds exactly one
\* document per request whose body validated and whose insert succeeded and
\* none for the others, no request inserts twice, and no request's outcome
\* depends on the other requests in flight.
C12_IndependentOnce ==
    C12_PersistedOnce /\ C12_OneInsert /\ C12_OwnOutcome

---------------------------------------------------------------------------
\* The places among the first n of the collection that the query of the GET
\* r matches.
MatchedAmong(r, n) ==
    { i \in 1..n : Matches(store[i], LtvFilter(req[r].query)) }

\* C13. A GET /v1/ltv racing with POSTs answers the sum over one snapshot:
\* the value is the revenue of the matching events the collection held at
\* one instant between the arrival of the request and its response, each
\* counted once. An event inserted meanwhile is counted or not; the events
\* inserted before the request arrived are all counted.
C13_SingleSnapshot ==
    \A r \in Gets :
        Summed(r) =>
            \E n \in req[r].began..Len(store) :
                req[r].res = OkLtv(Num(RevenueAt(store, MatchedAmong(r, n))))

\* A GET has been answered with an order in its sum that was inserted while
\* the request was in flight, beside the orders stored before.
C13_Witness ==
    \E r \in Gets :
        /\ Summed(r) /\ IsString(req[r].query)
        /\ req[r].began >= 5
        /\ \E i \in OrdersOf(store, req[r].query) :
              req[r].began < i /\ i <= req[r].seen
        /\ req[r].res.ltv.num > 42

---------------------------------------------------------------------------
\* The POST r has been answered 200.
Answered200(r) ==
    req[r].kind = "post" /\ req[r].res.kind = "json" /\ req[r].res.status = 200

\* The event of every POST answered 200 is in the collection.
C14_StoredWhenAnswered ==
    \A r \in Posts :
        Answered200(r) => \E i \in 1..Len(store) : store[i] = req[r].event

\* A GET for a user that arrived after the 200 of one of the user's orders
\* has that order in its sum.
C14_ReadYourWrites ==
    \A g \in Gets :
        Summed(g) /\ IsString(req[g].query) =>
            \A p \in req[g].acked :
                /\ req[p].event["type"] = Str("Order Completed")
                /\ req[p].event["userId"] = req[g].query
                => \E n \in req[g].began..Len(store) :
                      /\ \E i \in MatchedAmong(g, n) : store[i] = req[p].event
                      /\ req[g].res =
                            OkLtv(Num(RevenueAt(store, MatchedAmong(g, n))))

\* A step that sends the 200 of a POST finds its event in the collection.
C14_InsertBefore200 ==
    \A r \in Requests :
        req'[r].kind = "post" /\ req'[r].res.status = 200
                              /\ req[r].res.status # 200
            => \E i \in 1..Len(store) : store[i] = req'[r].event

\* A request that has its response, or has been passed to next, gets no
\* other.
C14_OneResponse ==
    \A r \in Requests : req[r].res # NoResponse => req'[r].res = req[r].res

\* C14. The 200 of POST /v1/events is sent only after the insert has
\* completed: when it is sent the event is in the collection, so a GET
\* /v1/ltv for its userId that arrives after the 200 counts the event's
\* revenue; and a request gets at most one response, never a 400 and a 200.
C14_AnsweredAfterStored ==
    /\ [](C14_StoredWhenAnswered /\ C14_ReadYourWrites)
    /\ [][C14_InsertBefore200 /\ C14_OneResponse]_vars

\* A POST of an order has been answered 200 and a GET for its user that
\* arrived afterwards has been answered with the order in its sum.
C14_Witness ==
    \E g \in Gets :
        /\ Summed(g) /\ IsString(req[g].query)
        /\ \E p \in req[g].acked :
              /\ Answered200(p)
              /\ req[p].event["type"] = Str("Order Completed")
              /\ req[p].event["userId"] = req[g].query
              /\ req[g].res.ltv.num >= req[p].event["revenue"].num
              /\ \E i \in 1..req[g].began : store[i] = req[p].event

====
